---- MODULE Spec2Model ----
(***************************************************************************)
(* Model of the lit-auth-client providers (EthWalletProvider,              *)
(* WebAuthnProvider, AppleProvider) and of the utilities they share        *)
(* (login URL, session-stored OAuth state, identity derivation).           *)
(*                                                                         *)
(* One provider instance lives in a state; `kind` says which variant the   *)
(* caller constructed.  Every public method is one action; the outcome of  *)
(* the last call (result or thrown error, the code positions it passed,    *)
(* the external calls it issued) is kept in `last`.                        *)
(***************************************************************************)
EXTENDS Integers, Sequences, FiniteSets, TLC

VARIABLES
    kind,                 \* which provider class was constructed
    authSig,              \* EthWalletProvider.#authSig
    attestationResponse,  \* WebAuthnProvider.#attestationResponse
    idToken,              \* AppleProvider.#idToken
    redirectUri,          \* AppleProvider.redirectUri
    session,              \* sessionStorage[STATE_PARAM_KEY]
    calls,                \* suspended prepareLoginUrl() calls
    authed,               \* history: "no" authenticate() was called, all "failed", or one returned ("yes")
    returned,             \* history: the AuthMethod that authenticate() returned last
    last                  \* history: the last completed call and its outcome

vars == <<kind, authSig, attestationResponse, idToken, redirectUri, session,
          calls, authed, returned, last>>

-----------------------------------------------------------------------------
(* JavaScript values.  A nullable value is a sequence of length 0 (null or *)
(* undefined) or 1.                                                        *)

None == <<>>

Some(x) == <<x>>

IsSome(v) == Len(v) = 1

Get(v) == v[1]

RECURSIVE SeqsOfLen(_, _)
SeqsOfLen(S, n) ==
    IF n = 0 THEN {<<>>}
    ELSE {<<x>> \o s : x \in S, s \in SeqsOfLen(S, n - 1)}

\* a prefix test that looks at the origin alone
StartsWithOrigin(s, p) == Len(p) >= 1 /\ Len(s) >= 1 /\ s[1] = p[1]

\* String.prototype.startsWith
StartsWith(s, p) == Len(p) <= Len(s) /\ SubSeq(s, 1, Len(p)) = p

-----------------------------------------------------------------------------
(* Base64 (window.btoa / window.atob).  A byte string is a sequence of     *)
(* character codes; base64 text is a sequence of symbols: 0..63 are the    *)
(* alphabet A-Za-z0-9+/ by index, the others are named below.              *)

PadSym == 64      \* "="

SpaceSym == 65    \* ASCII whitespace

PctSym == 66      \* a "%" that starts no valid escape

EscPadSym == 67   \* the escape "%3D" of "="

\* window.btoa
RECURSIVE encode(_)
encode(b) ==
    IF Len(b) = 0 THEN <<>>
    ELSE IF Len(b) = 1 THEN
        <<b[1] \div 4, (b[1] % 4) * 16, PadSym, PadSym>>
    ELSE IF Len(b) = 2 THEN
        <<b[1] \div 4, (b[1] % 4) * 16 + (b[2] \div 16), (b[2] % 16) * 4, PadSym>>
    ELSE
        <<b[1] \div 4, (b[1] % 4) * 16 + (b[2] \div 16),
          (b[2] % 16) * 4 + (b[3] \div 64), b[3] % 64>>
        \o encode(SubSeq(b, 4, Len(b)))

\* atob step 1: remove ASCII whitespace
StripSpace(s) == SelectSeq(s, LAMBDA c : c # SpaceSym)

\* atob step 2: with a length divisible by 4, remove one or two trailing "="
StripPad(s) ==
    IF Len(s) % 4 = 0 /\ Len(s) > 0 /\ s[Len(s)] = PadSym
    THEN IF s[Len(s) - 1] = PadSym
         THEN SubSeq(s, 1, Len(s) - 2)
         ELSE SubSeq(s, 1, Len(s) - 1)
    ELSE s

\* atob step 5: every four symbols give three bytes; two or three left over
\* give one or two bytes, the unused low bits being dropped
RECURSIVE Sextets2Bytes(_)
Sextets2Bytes(s) ==
    IF Len(s) = 0 THEN <<>>
    ELSE IF Len(s) = 2 THEN <<s[1] * 4 + (s[2] \div 16)>>
    ELSE IF Len(s) = 3 THEN
        <<s[1] * 4 + (s[2] \div 16), (s[2] % 16) * 16 + (s[3] \div 4)>>
    ELSE
        <<s[1] * 4 + (s[2] \div 16), (s[2] % 16) * 16 + (s[3] \div 4),
          (s[3] % 4) * 64 + s[4]>>
        \o Sextets2Bytes(SubSeq(s, 5, Len(s)))

\* window.atob: the bytes, or a thrown InvalidCharacterError
decode(s) ==
    LET t == StripPad(StripSpace(s)) IN
    IF Len(t) % 4 = 1 \/ \E i \in 1..Len(t) : t[i] \notin 0..63
    THEN [ok |-> FALSE, bytes |-> <<>>]
    ELSE [ok |-> TRUE, bytes |-> Sextets2Bytes(t)]

\* decodeURIComponent: the text with its escapes replaced, or a thrown URIError
decodeURIComponent(s) ==
    IF \E i \in 1..Len(s) : s[i] = PctSym
    THEN [ok |-> FALSE, text |-> <<>>]
    ELSE [ok |-> TRUE,
          text |-> [i \in 1..Len(s) |-> IF s[i] = EscPadSym THEN PadSym ELSE s[i]]]

-----------------------------------------------------------------------------
(* Strings.  Text that the code takes apart or composes character by       *)
(* character is a sequence of one-character strings; text that it parses   *)
(* (JSON, JWT) is a record saying what the text is.                        *)

Undefined == <<"u", "n", "d", "e", "f", "i", "n", "e", "d">>

\* a template literal's ${v}
Interp(v) == IF IsSome(v) THEN Get(v) ELSE Undefined

\* JSON.stringify of an object (a record whose absent fields are None)
JSONstringify(o) == [fmt |-> "json", obj |-> Some(o), segs |-> <<>>]

\* a JWT: segs are its dot-separated segments, each the base64 of the JSON
\* text of a claims object (b64 = Some(claims)) or of something else
JwtText(segs) == [fmt |-> "jwt", obj |-> None, segs |-> segs]

OpaqueText == [fmt |-> "opaque", obj |-> None, segs |-> <<>>]

EmptyText == [fmt |-> "empty", obj |-> None, segs |-> <<>>]

JunkSegment == [b64 |-> None]

ClaimsSegment(c) == [b64 |-> Some(c)]

\* o.name: None when the object has no such property
Field(o, name) == IF name \in DOMAIN o THEN o[name] ELSE None

\* JSON.parse: the object, or a thrown SyntaxError
JSONparse(t) ==
    IF t.fmt = "json"
    THEN [ok |-> TRUE, obj |-> t.obj]
    ELSE [ok |-> FALSE, obj |-> None]

\* String.prototype.split('.')
SplitDots(t) == IF t.fmt = "jwt" THEN t.segs ELSE <<JunkSegment>>

\* a string in a boolean context
Truthy(v) == IsSome(v) /\ Get(v) # EmptyText

\* utils.keccak256(utils.toUtf8Bytes(s)): collision-free on the strings used
keccak256(s) == [keccak |-> s]

\* String.prototype.toLowerCase, on the letters used
LowerChar(c) ==
    CASE c = "A" -> "a"
      [] c = "B" -> "b"
      [] c = "O" -> "o"
      [] c = "U" -> "u"
      [] OTHER -> c

toLowerCase(s) == [i \in 1..Len(s) |-> LowerChar(s[i])]

\* String.prototype.split('|')[0]
RECURSIVE FirstPart(_)
FirstPart(s) ==
    IF Len(s) = 0 \/ s[1] = "|" THEN <<>>
    ELSE <<s[1]>> \o FirstPart(Tail(s))

-----------------------------------------------------------------------------
(* Identity derivation (the standalone getAuthMethodId and its rules).     *)
(* A result is [ok, error, value, steps]: value is the identifier when ok, *)
(* error names the thrown error otherwise, steps are the functions and     *)
(* external calls reached, in order.                                       *)

Ok(v, steps) == [ok |-> TRUE, error |-> "none", value |-> v, steps |-> steps]

Err(e, steps) == [ok |-> FALSE, error |-> e, value |-> None, steps |-> steps]

\* jose.decodeJwt
getGoogleUserInfo(t) ==
    LET parts == SplitDots(t) IN
    IF Len(parts) # 3
    THEN [ok |-> FALSE, claims |-> None, steps |-> <<"split">>]
    ELSE IF ~IsSome(parts[2].b64)
    THEN [ok |-> FALSE, claims |-> None, steps |-> <<"split", "decodePayload">>]
    ELSE [ok |-> TRUE, claims |-> parts[2].b64, steps |-> <<"split", "decodePayload">>]

getGoogleAuthMethodId(am) ==
    LET payload == getGoogleUserInfo(am.accessToken)
        steps == <<"getGoogleAuthMethodId">> \o payload.steps
    IN
    IF ~payload.ok
    THEN Err("JWTInvalid", steps)
    ELSE Ok(Some(keccak256(Interp(Field(Get(payload.claims), "sub")) \o <<":">>
                            \o Interp(Field(Get(payload.claims), "aud")))),
            steps)

DiscordClientId ==
    <<"1", "0", "5", "2", "8", "7", "4", "2", "3", "9", "6", "5", "8", "6",
      "9", "2", "6", "6", "8">>

\* a Discord rule that fetches a second time when the first fetch failed
getDiscordAuthMethodIdRetrying(am, fetchOutcome) ==
    IF fetchOutcome.status = "throws"
    THEN Err("NetworkError", <<"getDiscordAuthMethodId", "fetch", "fetch">>)
    ELSE IF fetchOutcome.status = "notOk"
    THEN Err("UnableToFetchDiscordUserInfo", <<"getDiscordAuthMethodId", "fetch", "fetch">>)
    ELSE Ok(Some(keccak256(Interp(fetchOutcome.id) \o <<":">> \o DiscordClientId)),
            <<"getDiscordAuthMethodId", "fetch">>)

\* fetchOutcome is what the fetch of the users/@me endpoint does:
\* [status: "ok" | "notOk" | "throws", id: the user's id]
getDiscordAuthMethodId(am, fetchOutcome) ==
    LET steps == <<"getDiscordAuthMethodId", "fetch">> IN
    IF fetchOutcome.status = "throws" THEN Err("NetworkError", steps)
    ELSE IF fetchOutcome.status = "notOk"
    THEN Err("UnableToFetchDiscordUserInfo", steps)
    ELSE Ok(Some(keccak256(Interp(fetchOutcome.id) \o <<":">> \o DiscordClientId)),
            steps)

getEthWalletAuthMethodId(am) ==
    LET parsed == JSONparse(am.accessToken) IN
    IF ~parsed.ok
    THEN Err("SyntaxError", <<"getEthWalletAuthMethodId">>)
    ELSE Ok(Field(Get(parsed.obj), "address"), <<"getEthWalletAuthMethodId">>)

\* a WebAuthn rule that also hashes whether a user handle is present
getWebAuthnAuthMethodIdWithHandle(am) ==
    LET parsed == JSONparse(am.accessToken) IN
    IF ~parsed.ok
    THEN Err("SyntaxError", <<"getWebAuthnAuthMethodId">>)
    ELSE Ok(Some(keccak256(Interp(Field(Get(parsed.obj), "rawId")) \o <<":">>
                            \o (IF IsSome(Field(Get(parsed.obj), "userHandle"))
                                THEN <<"h">> ELSE <<"n">>))),
            <<"getWebAuthnAuthMethodId">>)

getWebAuthnAuthMethodId(am) ==
    LET parsed == JSONparse(am.accessToken) IN
    IF ~parsed.ok
    THEN Err("SyntaxError", <<"getWebAuthnAuthMethodId">>)
    ELSE Ok(Some(keccak256(Interp(Field(Get(parsed.obj), "rawId")) \o <<":", "l", "i", "t">>)),
            <<"getWebAuthnAuthMethodId">>)

\* a parseOTPJWT that reads the payload of any token with a second segment
parseOTPJWTLenient(t) ==
    LET parts == SplitDots(t) IN
    IF Len(parts) < 2
    THEN [ok |-> FALSE, error |-> "InvalidTokenLength", claims |-> None,
          steps |-> <<"split">>]
    ELSE IF ~IsSome(parts[2].b64)
    THEN [ok |-> FALSE, error |-> "SyntaxError", claims |-> None,
          steps |-> <<"split", "decodePayload">>]
    ELSE [ok |-> TRUE, error |-> "none", claims |-> parts[2].b64,
          steps |-> <<"split", "decodePayload">>]

\* the parsed body, or the thrown error
parseOTPJWT(t) ==
    LET parts == SplitDots(t) IN
    IF Len(parts) # 3
    THEN [ok |-> FALSE, error |-> "InvalidTokenLength", claims |-> None,
          steps |-> <<"split">>]
    ELSE IF ~IsSome(parts[2].b64)
    THEN [ok |-> FALSE, error |-> "SyntaxError", claims |-> None,
          steps |-> <<"split", "decodePayload">>]
    ELSE [ok |-> TRUE, error |-> "none", claims |-> parts[2].b64,
          steps |-> <<"split", "decodePayload">>]

\* an OTP rule that lowercases the user id as well
getOTPMethodIdLowerBoth(am) ==
    LET tokenBody == parseOTPJWT(am.accessToken)
        steps == <<"getOTPMethodId">> \o tokenBody.steps
    IN
    IF ~tokenBody.ok THEN Err(tokenBody.error, steps)
    ELSE
    LET orgId == Field(Get(tokenBody.claims), "orgId")
        message == Field(Get(tokenBody.claims), "extraData")
    IN
    IF ~IsSome(orgId) \/ ~IsSome(message) THEN Err("TypeError", steps)
    ELSE Ok(Some(keccak256(toLowerCase(FirstPart(Get(message))) \o <<":">>
                            \o toLowerCase(Get(orgId)))),
            steps)

getOTPMethodId(am) ==
    LET tokenBody == parseOTPJWT(am.accessToken)
        steps == <<"getOTPMethodId">> \o tokenBody.steps
    IN
    IF ~tokenBody.ok THEN Err(tokenBody.error, steps)
    ELSE
    LET orgId == Field(Get(tokenBody.claims), "orgId")
        message == Field(Get(tokenBody.claims), "extraData")
    IN
    IF ~IsSome(orgId) \/ ~IsSome(message) THEN Err("TypeError", steps)
    ELSE Ok(Some(keccak256(FirstPart(Get(message)) \o <<":">>
                            \o toLowerCase(Get(orgId)))),
            steps)

\* the exported getAuthMethodId(authMethod)
getAuthMethodId(am, fetchOutcome) ==
    CASE am.authMethodType = "GoogleJwt" -> getGoogleAuthMethodId(am)
      [] am.authMethodType = "Discord" -> getDiscordAuthMethodId(am, fetchOutcome)
      [] am.authMethodType = "EthWallet" -> getEthWalletAuthMethodId(am)
      [] am.authMethodType = "WebAuthn" -> getWebAuthnAuthMethodId(am)
      [] am.authMethodType = "OTP" -> getOTPMethodId(am)
      [] OTHER -> Err("InvalidAuthMethodType", <<>>)


-----------------------------------------------------------------------------
(* The OAuth redirect flow: login URL, state parameter, callback.          *)

\* length of the generated state parameter (nanoid(15) in the code)
StateTokenLen == 1

\* characters of nanoid's alphabet A-Za-z0-9_- that are generated here: "_", "z"
TokenChars == {95, 122}

\* what nanoid(StateTokenLen) can return
Tokens == SeqsOfLen(TokenChars, StateTokenLen)

\* a URL is [path, query]; the query is held parsed, as URLSearchParams gives
\* it: each parameter is None when absent
NoQuery ==
    [provider |-> None, access_token |-> None, id_token |-> None,
     state |-> None, error |-> None, app_redirect |-> None]

\* window.location.href, as far as startsWith can tell
Href(u) == u.path \o (IF u.query = NoQuery THEN <<>> ELSE <<"?">>)

\* a name (provider, error) in a boolean context
TruthyName(v) == IsSome(v) /\ Get(v) # ""

\* a base64 text in a boolean context
TruthySyms(v) == IsSome(v) /\ Get(v) # <<>>

\* the route, or None where the code throws
getLoginRoute(provider) ==
    CASE provider = "google" -> Some(<<"auth", "google">>)
      [] provider = "discord" -> Some(<<"auth", "discord">>)
      [] OTHER -> None

\* how a URL parser reads a query value written unescaped: "+" is a space
QueryValue(raw) == [i \in 1..Len(raw) |-> IF raw[i] = 62 THEN SpaceSym ELSE raw[i]]

\* `${loginUrl}?${queryAuthParams}&state=${state}`
LoginUrl(route, uri, state) ==
    [path |-> <<"login.litgateway.com">> \o route,
     query |-> [NoQuery EXCEPT !.app_redirect = Some(uri),
                               !.state = Some(QueryValue(state))]]

\* a setStateParam that keeps a token already stored
setStateParamKeepFirst(store, token) == IF IsSome(store) THEN store ELSE Some(token)

\* removeStateParam: what the session store holds under STATE_PARAM_KEY
\* afterwards
removeStateParam(store) == None

\* setStateParam with nanoid returning `token`: what the session store
\* holds under STATE_PARAM_KEY afterwards
setStateParam(store, token) == Some(token)

\* prepareLoginUrl run to its end with nanoid returning `token`:
\* res is the outcome, store the session store afterwards
prepareLoginUrl(provider, uri, token, store) ==
    LET route == getLoginRoute(provider) IN
    IF ~IsSome(route)
    THEN [res |-> Err("NoLoginRoute", <<"getLoginRoute">>), store |-> store]
    ELSE [res |-> Ok(Some(LoginUrl(Get(route), uri, encode(token))),
                     <<"getLoginRoute", "setStateParam", "nanoid", "setItem",
                       "encode", "createQueryParams">>),
          store |-> setStateParam(store, token)]

parseLoginParams(q) ==
    [provider |-> q.provider, accessToken |-> q.access_token,
     idToken |-> q.id_token, state |-> q.state, error |-> q.error]

\* a state check in which an absent state matches an empty store
AppleStateCheckAbsentMatches(state, stored) ==
    IF ~TruthySyms(state) THEN (IF stored = None THEN "pass" ELSE "fail")
    ELSE LET u == decodeURIComponent(Get(state)) IN
         IF ~u.ok THEN "URIError"
         ELSE LET d == decode(u.text) IN
              IF ~d.ok THEN "InvalidCharacterError"
              ELSE IF Some(d.bytes) # stored THEN "fail"
              ELSE "pass"

\* a state check that compares only against a token that is stored
AppleStateCheckLax(state, stored) ==
    IF ~TruthySyms(state) THEN "fail"
    ELSE LET u == decodeURIComponent(Get(state)) IN
         IF ~u.ok THEN "URIError"
         ELSE LET d == decode(u.text) IN
              IF ~d.ok THEN "InvalidCharacterError"
              ELSE IF IsSome(stored) /\ Some(d.bytes) # stored THEN "fail"
              ELSE "pass"

\* !state || decode(decodeURIComponent(state)) !== getStateParam():
\* "pass", "fail", or the error thrown while decoding
AppleStateCheck(state, stored) ==
    IF ~TruthySyms(state) THEN "fail"
    ELSE LET u == decodeURIComponent(Get(state)) IN
         IF ~u.ok THEN "URIError"
         ELSE LET d == decode(u.text) IN
              IF ~d.ok THEN "InvalidCharacterError"
              ELSE IF Some(d.bytes) # stored THEN "fail"
              ELSE "pass"

\* the functions the state check calls before it is decided
AppleStateCheckSteps(state) ==
    IF ~TruthySyms(state) THEN <<>>
    ELSE LET u == decodeURIComponent(Get(state)) IN
         IF ~u.ok THEN <<"decodeURIComponent">>
         ELSE IF ~decode(u.text).ok THEN <<"decodeURIComponent", "decode">>
         ELSE <<"decodeURIComponent", "decode", "getStateParam">>

\* an authenticate that replaces the URL only after the id_token test
AppleAuthenticateStripLast(loc, uri, stored) ==
    IF ~StartsWith(Href(loc), uri)
    THEN [res |-> Err("RedirectMismatch", <<"startsWith">>),
          strip |-> FALSE, token |-> None]
    ELSE
    LET p == parseLoginParams(loc.query)
        s1 == <<"startsWith", "parseLoginParams">>
        s2 == s1 \o AppleStateCheckSteps(p.state)
        s3 == s2 \o <<"replaceState">>
        check == AppleStateCheck(p.state, stored)
    IN
    IF TruthyName(p.error)
    THEN [res |-> Err("ProviderError", s1), strip |-> FALSE, token |-> None]
    ELSE IF ~TruthyName(p.provider) \/ Get(p.provider) # "apple"
    THEN [res |-> Err("ProviderMismatch", s1), strip |-> FALSE, token |-> None]
    ELSE IF check = "fail"
    THEN [res |-> Err("InvalidState", s2), strip |-> FALSE, token |-> None]
    ELSE IF check # "pass"
    THEN [res |-> Err(check, s2), strip |-> FALSE, token |-> None]
    ELSE IF ~Truthy(p.idToken)
    THEN [res |-> Err("MissingIdToken", s2), strip |-> FALSE, token |-> None]
    ELSE [res |-> Ok(Some([authMethodType |-> "AppleJwt",
                           accessToken |-> Get(p.idToken)]), s3),
          strip |-> TRUE, token |-> p.idToken]

\* an authenticate that tests the provider name before the error parameter
AppleAuthenticateProviderFirst(loc, uri, stored) ==
    IF ~StartsWith(Href(loc), uri)
    THEN [res |-> Err("RedirectMismatch", <<"startsWith">>),
          strip |-> FALSE, token |-> None]
    ELSE
    LET p == parseLoginParams(loc.query)
        s1 == <<"startsWith", "parseLoginParams">>
        s2 == s1 \o AppleStateCheckSteps(p.state)
        s3 == s2 \o <<"replaceState">>
        check == AppleStateCheck(p.state, stored)
    IN
    IF ~TruthyName(p.provider) \/ Get(p.provider) # "apple"
    THEN [res |-> Err("ProviderMismatch", s1), strip |-> FALSE, token |-> None]
    ELSE IF TruthyName(p.error)
    THEN [res |-> Err("ProviderError", s1), strip |-> FALSE, token |-> None]
    ELSE IF check = "fail"
    THEN [res |-> Err("InvalidState", s2), strip |-> FALSE, token |-> None]
    ELSE IF check # "pass"
    THEN [res |-> Err(check, s2), strip |-> FALSE, token |-> None]
    ELSE IF ~Truthy(p.idToken)
    THEN [res |-> Err("MissingIdToken", s3), strip |-> TRUE, token |-> None]
    ELSE [res |-> Ok(Some([authMethodType |-> "AppleJwt",
                           accessToken |-> Get(p.idToken)]), s3),
          strip |-> TRUE, token |-> p.idToken]

\* AppleProvider.authenticate on URL loc: res is the outcome, strip says
\* whether history.replaceState ran, token is the new #idToken (None: unset)
AppleAuthenticateRun(loc, uri, stored) ==
    IF ~StartsWith(Href(loc), uri)
    THEN [res |-> Err("RedirectMismatch", <<"startsWith">>),
          strip |-> FALSE, token |-> None]
    ELSE
    LET p == parseLoginParams(loc.query)
        s1 == <<"startsWith", "parseLoginParams">>
        s2 == s1 \o AppleStateCheckSteps(p.state)
        s3 == s2 \o <<"replaceState">>
        check == AppleStateCheck(p.state, stored)
    IN
    IF TruthyName(p.error)
    THEN [res |-> Err("ProviderError", s1), strip |-> FALSE, token |-> None]
    ELSE IF ~TruthyName(p.provider) \/ Get(p.provider) # "apple"
    THEN [res |-> Err("ProviderMismatch", s1), strip |-> FALSE, token |-> None]
    ELSE IF check = "fail"
    THEN [res |-> Err("InvalidState", s2), strip |-> FALSE, token |-> None]
    ELSE IF check # "pass"
    THEN [res |-> Err(check, s2), strip |-> FALSE, token |-> None]
    ELSE IF ~Truthy(p.idToken)
    THEN [res |-> Err("MissingIdToken", s3), strip |-> TRUE, token |-> None]
    ELSE [res |-> Ok(Some([authMethodType |-> "AppleJwt",
                           accessToken |-> Get(p.idToken)]), s3),
          strip |-> TRUE, token |-> p.idToken]

\* parseJWT of ../utils: the payload's claims, or the thrown error
parseJWT(t) ==
    LET parts == SplitDots(t) IN
    IF Len(parts) # 3
    THEN [ok |-> FALSE, error |-> "InvalidTokenLength", claims |-> None,
          steps |-> <<"split">>]
    ELSE IF ~IsSome(parts[2].b64)
    THEN [ok |-> FALSE, error |-> "SyntaxError", claims |-> None,
          steps |-> <<"split", "decodePayload">>]
    ELSE [ok |-> TRUE, error |-> "none", claims |-> parts[2].b64,
          steps |-> <<"split", "decodePayload">>]

\* AppleProvider.getAuthMethodId with #idToken = tok
AppleGetAuthMethodIdRun(tok) ==
    IF ~Truthy(tok) THEN Err("CallAuthenticateFirst", <<>>)
    ELSE LET tokenPayload == parseJWT(Get(tok)) IN
         IF ~tokenPayload.ok
         THEN Err(tokenPayload.error, <<"parseJWT">> \o tokenPayload.steps)
         ELSE Ok(Some(keccak256(Interp(Field(Get(tokenPayload.claims), "sub")) \o <<":">>
                                 \o Interp(Field(Get(tokenPayload.claims), "aud")))),
                 <<"parseJWT">> \o tokenPayload.steps)


-----------------------------------------------------------------------------
(* EthWalletProvider.                                                      *)

\* number of hex digits of an address (40 in Ethereum)
AddrLen == 2

AddrChars == {"a", "A"}

Addresses == SeqsOfLen(AddrChars, AddrLen)

\* a string that is no address
NotAnAddress == <<"z">>

UpperChar(c) ==
    CASE c = "a" -> "A"
      [] c = "b" -> "B"
      [] OTHER -> c

IsHexChar(c) == c \in {"a", "b", "A", "B", "0", "1"}

IsLowerHex(c) == c \in {"a", "b"}

IsUpperHex(c) == c \in {"A", "B"}

\* stands for the keccak256 of the lower-case address, of which the checksum
\* reads one bit per digit: a value that depends on every digit
RECURSIVE DigitSum(_)
DigitSum(s) ==
    IF Len(s) = 0 THEN 0
    ELSE (CASE s[1] = "a" -> 10 [] s[1] = "b" -> 11 [] s[1] = "1" -> 1 [] OTHER -> 0)
         + DigitSum(Tail(s))

HashBit(lower, i) == (DigitSum(lower) + i) % 2 = 1

\* ethers' getChecksumAddress: letters in upper case where the hash bit is set
getChecksumAddress(a) ==
    LET lower == toLowerCase(a) IN
    [i \in 1..Len(a) |-> IF HashBit(lower, i) THEN UpperChar(lower[i]) ELSE lower[i]]

\* ethers.utils.getAddress: the checksum address, or the thrown error
getAddress(a) ==
    IF Len(a) # AddrLen \/ \E i \in 1..Len(a) : ~IsHexChar(a[i])
    THEN [ok |-> FALSE, error |-> "InvalidAddress", address |-> <<>>]
    ELSE IF /\ \E i \in 1..Len(a) : IsUpperHex(a[i])
            /\ \E i \in 1..Len(a) : IsLowerHex(a[i])
            /\ getChecksumAddress(a) # a
    THEN [ok |-> FALSE, error |-> "BadAddressChecksum", address |-> <<>>]
    ELSE [ok |-> TRUE, error |-> "none", address |-> getChecksumAddress(a)]

\* LIT_CHAINS[chain]?.chainId, or 1
ChainId(chain) ==
    CASE chain = "ethereum" -> 1
      [] chain = "polygon" -> 137
      [] OTHER -> 1

\* message.prepareMessage() of the SiweMessage built from the fields
PreparedMessage(domain, origin, address, chainId, expiration) ==
    [domain |-> domain, uri |-> origin, address |-> address, version |-> "1",
     chainId |-> chainId, expirationTime |-> expiration]

\* options.cache after `if (options && options.cache === null) options.cache = true`
CacheOption(options) ==
    IF ~IsSome(options) THEN "undefined"
    ELSE IF Get(options).cache = "null" THEN "true"
    ELSE Get(options).cache

\* a collaborator path without the `if (!authSig) throw`
ViaWalletUnchecked(wallet, step) ==
    IF wallet.status = "throws"
    THEN [res |-> Err("WalletError", <<step>>), sig |-> None]
    ELSE IF ~IsSome(wallet.authSig)
    THEN [res |-> Ok(Some([authMethodType |-> "EthWallet", accessToken |-> EmptyText]),
                     <<step>>),
          sig |-> None]
    ELSE [res |-> Ok(Some([authMethodType |-> "EthWallet",
                           accessToken |-> JSONstringify(Get(wallet.authSig))]),
                     <<step>>),
          sig |-> wallet.authSig]

\* authSig = await checkAndSignAuthMessage(...) followed by the rest of
\* authenticate: `if (!authSig) throw`, the assignment of #authSig, the return
ViaWallet(wallet, step) ==
    IF wallet.status = "throws"
    THEN [res |-> Err("WalletError", <<step>>), sig |-> None]
    ELSE IF ~IsSome(wallet.authSig)
    THEN [res |-> Err("AuthSigUndefined", <<step>>), sig |-> None]
    ELSE [res |-> Ok(Some([authMethodType |-> "EthWallet",
                           accessToken |-> JSONstringify(Get(wallet.authSig))]),
                     <<step>>),
          sig |-> wallet.authSig]

\* EthWalletProvider.authenticate.  options: None or Some([address, signer,
\* chain, cache, expiration]); sign: what the caller's signMessage does when
\* called; wallet: what checkAndSignAuthMessage does when called.
\* res is the outcome, sig the AuthSig stored in #authSig (None: nothing stored)
EthAuthenticateRun(options, sign, wallet, domain, origin) ==
    LET address == IF IsSome(options) THEN Get(options).address ELSE None
        signer == IsSome(options) /\ Get(options).signer
        chain == IF IsSome(options) /\ IsSome(Get(options).chain)
                 THEN Get(Get(options).chain) ELSE "ethereum"
        expiration == IF IsSome(options) /\ IsSome(Get(options).expiration)
                      THEN Get(Get(options).expiration) ELSE "now+24h"
        viaWallet(step) == ViaWallet(wallet, step)
    IN
    IF CacheOption(options) = "true"
    THEN viaWallet("checkAndSignAuthMessage(cache)")
    ELSE IF IsSome(address) /\ Get(address) # <<>> /\ signer
    THEN LET checked == getAddress(Get(address))
             toSign == PreparedMessage(domain, origin, checked.address,
                                       ChainId(chain), expiration)
             sig == [sig |-> sign.sig, derivedVia |-> "web3.eth.personal.sign",
                     signedMessage |-> toSign, address |-> address]
         IN
         IF ~checked.ok
         THEN [res |-> Err(checked.error, <<"getAddress">>), sig |-> None]
         ELSE IF sign.status = "throws"
         THEN [res |-> Err("SignError", <<"getAddress", "signMessage">>),
               sig |-> None]
         ELSE [res |-> Ok(Some([authMethodType |-> "EthWallet",
                                accessToken |-> JSONstringify(sig)]),
                          <<"getAddress", "signMessage">>),
               sig |-> Some(sig)]
    ELSE viaWallet("checkAndSignAuthMessage")

\* EthWalletProvider.getAuthMethodId with #authSig = sig
EthGetAuthMethodIdRun(sig) ==
    IF ~IsSome(sig) THEN Err("CallAuthenticateFirst", <<>>)
    ELSE Ok(Get(sig).address, <<>>)

-----------------------------------------------------------------------------
(* WebAuthnProvider.                                                       *)

\* origin: [scheme, host, port]; the host without scheme and port
getRPIdFromOrigin(origin) == origin.host

\* base64url of a value: another text than the value
base64url(v) == [base64url |-> v]

AuthenticationOptions(blockHash, origin) ==
    [challenge |-> base64url(blockHash), timeout |-> 60000,
     userVerification |-> "required", rpId |-> getRPIdFromOrigin(origin)]

\* an authenticate that keeps what the ceremony left even when it threw
WebAuthnAuthenticateStoringEarly(block, ceremony, origin) ==
    IF block.status = "throws"
    THEN [res |-> Err("RpcError", <<"getBlock">>), stored |-> None]
    ELSE IF ceremony.status = "throws"
    THEN [res |-> Err("CeremonyError", <<"getBlock", "startAuthentication">>),
          stored |-> Some(ceremony.response)]
    ELSE [res |-> Ok(Some([authMethodType |-> "WebAuthn",
                           accessToken |-> JSONstringify(ceremony.response)]),
                     <<"getBlock", "startAuthentication">>),
          stored |-> Some(ceremony.response)]

\* WebAuthnProvider.authenticate.  block: what provider.getBlock('latest')
\* does; ceremony: what startAuthentication does when called.
\* stored is the new #attestationResponse (None: nothing stored)
WebAuthnAuthenticateRun(block, ceremony, origin) ==
    IF block.status = "throws"
    THEN [res |-> Err("RpcError", <<"getBlock">>), stored |-> None]
    ELSE IF ceremony.status = "throws"
    THEN [res |-> Err("CeremonyError", <<"getBlock", "startAuthentication">>),
          stored |-> None]
    ELSE
    LET response == ceremony.response
        actual == IF IsSome(response.userHandle)
                  THEN [response EXCEPT
                            !.userHandle = Some(base64url(Get(response.userHandle)))]
                  ELSE response
    IN [res |-> Ok(Some([authMethodType |-> "WebAuthn",
                         accessToken |-> JSONstringify(actual)]),
                   <<"getBlock", "startAuthentication">>),
        stored |-> Some(actual)]

\* a getAuthMethodId without the check of #attestationResponse
WebAuthnGetAuthMethodIdUnguarded(att) ==
    Ok(Some(keccak256(Interp(IF IsSome(att) THEN Get(att).rawId ELSE None)
                      \o <<":", "l", "i", "t">>)), <<>>)

\* WebAuthnProvider.getAuthMethodId with #attestationResponse = att
WebAuthnGetAuthMethodIdRun(att) ==
    IF ~IsSome(att) THEN Err("CallAuthenticateFirst", <<>>)
    ELSE Ok(Some(keccak256(Interp(Get(att).rawId) \o <<":", "l", "i", "t">>)), <<>>)

\* parseAuthenticatorData(buffer).attestedCredentialData.credentialPublicKey,
\* hex-encoded: the key, or None where decoding throws
PublicKeyOf(attestationObject) == attestationObject.credentialPublicKey

\* a registration that derives the identifier from the credential it created
VerifyAndMintFromRegistration(att, registration, mint) ==
    LET id == WebAuthnGetAuthMethodIdRun(Some(registration.attResp))
        publicKey == PublicKeyOf(registration.attResp.attestationObject)
        req == [authMethodType |-> "WebAuthn", authMethodId |-> id.value,
                authMethodPubKey |-> publicKey]
        s1 == <<"startRegistration">>
        s2 == <<"startRegistration", "parseAuthenticatorData">>
        s3 == <<"startRegistration", "parseAuthenticatorData", "mintPKP">>
    IN
    IF registration.status = "throws"
    THEN [res |-> Err("CeremonyError", s1), req |-> None]
    ELSE IF ~IsSome(publicKey)
    THEN [res |-> Err("AttestationDecode", s2), req |-> None]
    ELSE IF mint.status = "throws"
    THEN [res |-> Err("RelayError", s3), req |-> Some(req)]
    ELSE IF ~IsSome(mint.response) \/ ~IsSome(Get(mint.response).requestId)
    THEN [res |-> Err("MissingMintResponse", s3), req |-> Some(req)]
    ELSE [res |-> Ok(Get(mint.response).requestId, s3), req |-> Some(req)]

\* WebAuthnProvider.verifyAndMintPKPThroughRelayer.  registration: what
\* startRegistration does; mint: what relay.mintPKP does when called.
\* req is the RelayerRequest handed to the relay (None: the relay was not called)
VerifyAndMintRun(att, registration, mint) ==
    LET id == WebAuthnGetAuthMethodIdRun(att)
        publicKey == PublicKeyOf(registration.attResp.attestationObject)
        req == [authMethodType |-> "WebAuthn", authMethodId |-> id.value,
                authMethodPubKey |-> publicKey]
        s1 == <<"startRegistration">>
        s2 == <<"startRegistration", "parseAuthenticatorData">>
        s3 == <<"startRegistration", "parseAuthenticatorData", "mintPKP">>
    IN
    IF registration.status = "throws"
    THEN [res |-> Err("CeremonyError", s1), req |-> None]
    ELSE IF ~id.ok
    THEN [res |-> Err(id.error, s1), req |-> None]
    ELSE IF ~IsSome(publicKey)
    THEN [res |-> Err("AttestationDecode", s2), req |-> None]
    ELSE IF mint.status = "throws"
    THEN [res |-> Err("RelayError", s3), req |-> Some(req)]
    ELSE IF ~IsSome(mint.response) \/ ~IsSome(Get(mint.response).requestId)
    THEN [res |-> Err("MissingMintResponse", s3), req |-> Some(req)]
    ELSE [res |-> Ok(Get(mint.response).requestId, s3), req |-> Some(req)]

\* WebAuthnProvider.register: relay is what relay.generateRegistrationOptions
\* does
WebAuthnRegisterRun(relay) ==
    IF relay.status = "throws"
    THEN Err("RelayError", <<"generateRegistrationOptions">>)
    ELSE Ok(relay.options, <<"generateRegistrationOptions">>)

\* a verify that answers once authentication data is held
WebAuthnVerifyAnswering(att) ==
    IF IsSome(att) THEN Ok(Some(TRUE), <<>>) ELSE Err("UseSessionSigs", <<>>)

\* WebAuthnProvider.verify with #attestationResponse = att: it throws the
\* 'Call useSessionSigs ...' error whatever the instance holds
WebAuthnVerifyRun(att) == Err("UseSessionSigs", <<>>)


-----------------------------------------------------------------------------
(* The callers and the environment: what the methods are called with and   *)
(* what the external collaborators answer.                                  *)

Kinds == {"EthWallet", "WebAuthn", "Apple", "Utils"}

Domain == "app.example"

Origin == [scheme |-> "https", host |-> "app.example", port |-> None]

RedirectUris == {<<"app.example", "cb">>}

\* ---- EthWallet
EthOptions ==
    {None} \cup
    {Some([address |-> a, signer |-> f, chain |-> Some("polygon"), cache |-> k,
           expiration |-> None]) :
        a \in {None, Some(NotAnAddress)} \cup {Some(x) : x \in Addresses},
        f \in BOOLEAN,
        k \in {"undefined", "null", "true", "false"}}

\* an AuthSig as the wallet collaborator produces it
WalletAuthSig ==
    LET a == [i \in 1..AddrLen |-> "a"] IN
    [sig |-> "0xwallet", derivedVia |-> "web3.eth.personal.sign",
     signedMessage |-> PreparedMessage("wallet", "wallet", a, 1, "wallet"),
     address |-> Some(a)]

\* what the two collaborators of authenticate() do; a call reaches one of
\* them at most, so every outcome of each appears once
EthOutcomes ==
    {[sign |-> [status |-> "throws", sig |-> ""],
      wallet |-> [status |-> "throws", authSig |-> None]],
     [sign |-> [status |-> "returns", sig |-> "0xsig"],
      wallet |-> [status |-> "returns", authSig |-> None]],
     [sign |-> [status |-> "returns", sig |-> "0xsig"],
      wallet |-> [status |-> "returns", authSig |-> Some(WalletAuthSig)]]}

\* ---- WebAuthn
RawIds == {<<"r", "1">>, <<"r", "2">>}

Assertions ==
    {[rawId |-> r, userHandle |-> h] :
        r \in {None} \cup {Some(x) : x \in RawIds}, h \in {None, Some("handle")}}

BlockOutcomes == {[status |-> "throws", hash |-> ""], [status |-> "returns", hash |-> "0xblock"]}

CeremonyOutcomes ==
    {[status |-> "throws", response |-> [rawId |-> None, userHandle |-> None]]}
    \cup {[status |-> "returns", response |-> r] : r \in Assertions}

AttestationResponses ==
    {[rawId |-> Some(<<"n", "e", "w">>),
      attestationObject |-> [credentialPublicKey |-> k]] : k \in {None, Some("0xcose")}}

RegistrationOutcomes ==
    {[status |-> st, attResp |-> a] :
        st \in {"throws", "returns"}, a \in AttestationResponses}

RegisterOutcomes ==
    {[status |-> "throws", options |-> None],
     [status |-> "returns", options |-> Some("creation-options")]}

MintOutcomes ==
    {[status |-> "throws", response |-> None],
     [status |-> "returns", response |-> None],
     [status |-> "returns", response |-> Some([requestId |-> None])],
     [status |-> "returns", response |-> Some([requestId |-> Some("req-1")])]}

\* ---- tokens
GoodClaims == [sub |-> Some(<<"u", "7">>), aud |-> Some(<<"c", "1">>)]

OtherClaims == [sub |-> Some(<<"u", "8">>), aud |-> Some(<<"c", "1">>)]

NoSubClaims == [aud |-> Some(<<"c", "1">>)]

OtpClaims == [orgId |-> Some(<<"O", "r", "g">>), extraData |-> Some(<<"U", "7", "|", "x">>)]

OtpClaimsNoBar == [orgId |-> Some(<<"O", "B">>), extraData |-> Some(<<"U", "7">>)]

OtpClaimsTwoBars ==
    [orgId |-> Some(<<"o", "b">>), extraData |-> Some(<<"U", "|", "7", "|", "x">>)]

NoOrgIdClaims == [extraData |-> Some(<<"U", "7", "|", "x">>)]

NoExtraDataClaims == [orgId |-> Some(<<"O", "r", "g">>)]

NoAudClaims == [sub |-> Some(<<"u", "7">>)]

Jwt(claims) == JwtText(<<JunkSegment, ClaimsSegment(claims), JunkSegment>>)

TwoSegmentJwt == JwtText(<<JunkSegment, ClaimsSegment(GoodClaims)>>)

JunkPayloadJwt == JwtText(<<JunkSegment, JunkSegment, JunkSegment>>)

FourSegmentJwt ==
    JwtText(<<JunkSegment, ClaimsSegment(GoodClaims), JunkSegment, JunkSegment>>)

\* ---- OAuth callback URLs
CallbackPaths == {<<"app.example", "cb">>, <<"evil.example", "cb">>}

CallbackStates ==
    {None, Some(<<>>), Some(<<PctSym>>), Some(<<0>>)}
    \cup {Some(encode(t)) : t \in Tokens}
    \cup {Some(<<SpaceSym>> \o encode(t)) : t \in {CHOOSE x \in Tokens : TRUE}}
    \cup {Some([i \in 1..Len(encode(t)) |->
                   IF encode(t)[i] = PadSym THEN EscPadSym ELSE encode(t)[i]]) :
            t \in {CHOOSE x \in Tokens : TRUE}}

Callback(p, pr, it, st, er) ==
    [path |-> p,
     query |-> [NoQuery EXCEPT !.provider = pr, !.id_token = it,
                               !.state = st, !.error = er]]

CallbackUrls ==
    {Callback(p, pr, it, st, er) :
        p \in CallbackPaths,
        pr \in {Some("apple"), Some("google")},
        it \in {None, Some(Jwt(GoodClaims)), Some(TwoSegmentJwt)},
        st \in CallbackStates,
        er \in {None, Some("access_denied")}}
    \cup {Callback(p, pr, Some(Jwt(GoodClaims)), Some(encode(t)), None) :
            p \in {<<"app.example", "cb", "deep">>, <<"app.example">>},
            pr \in {None, Some("apple")},
            t \in Tokens}
    \cup {Callback(<<"app.example", "cb">>, Some("apple"), Some(EmptyText),
                    Some(encode(t)), None) : t \in Tokens}

\* ---- auth methods handed to the standalone getAuthMethodId
AuthMethodTypes ==
    {"EthWallet", "LitAction", "WebAuthn", "Discord", "GoogleJwt", "OTP", "AppleJwt"}

AccessTokens ==
    {JSONstringify(WalletAuthSig),
     JSONstringify([WalletAuthSig EXCEPT !.address = None]),
     JSONstringify([rawId |-> Some(<<"r", "1">>), userHandle |-> None]),
     Jwt(GoodClaims), Jwt(NoSubClaims), Jwt(NoAudClaims), Jwt(OtpClaims),
     Jwt(OtpClaimsNoBar), Jwt(OtpClaimsTwoBars), Jwt(NoOrgIdClaims),
     Jwt(NoExtraDataClaims),
     TwoSegmentJwt, FourSegmentJwt, JunkPayloadJwt, OpaqueText, EmptyText}

AuthMethods ==
    {[authMethodType |-> t, accessToken |-> a] : t \in AuthMethodTypes, a \in AccessTokens}

FetchOutcomes ==
    {[status |-> "throws", id |-> None], [status |-> "notOk", id |-> None],
     [status |-> "ok", id |-> None], [status |-> "ok", id |-> Some(<<"4", "2">>)]}


-----------------------------------------------------------------------------
(* The state machine: one action per method call.                          *)

Result(op, res, args, out) == [op |-> op, res |-> res, args |-> args, out |-> out]

NoArgs == [none |-> TRUE]

\* number of prepareLoginUrl() calls that can be suspended at once
NumCalls == 2

CallIds == 1..NumCalls

\* no call is suspended and nothing was written yet.  slots[i] is call i:
\* "idle", or "importing" (awaiting import('nanoid')), or "stored" (token
\* written, awaiting setStateParam's result); written is the token of the
\* last write, earlier the tokens of the writes before it
NoCalls ==
    [slots |-> [i \in CallIds |-> [pc |-> "idle", provider |-> "", token |-> <<>>]],
     written |-> None,
     earlier |-> {}]

Init ==
    /\ kind \in Kinds
    /\ authSig = None
    /\ attestationResponse = None
    /\ idToken = None
    /\ redirectUri \in RedirectUris
    /\ session = None
    /\ calls = NoCalls
    /\ authed = "no"
    /\ returned = None
    /\ last = Result("new", Ok(None, <<>>), NoArgs, NoArgs)

\* what a call of authenticate() leaves in the history variables
Authenticated(res) ==
    /\ authed' = IF res.ok \/ authed = "yes" THEN "yes" ELSE "failed"
    /\ returned' = IF res.ok THEN res.value ELSE returned

EthAuthenticate ==
    /\ kind = "EthWallet"
    /\ \E options \in EthOptions, ext \in EthOutcomes :
        LET r == EthAuthenticateRun(options, ext.sign, ext.wallet, Domain, Origin) IN
        /\ authSig' = IF IsSome(r.sig) THEN r.sig ELSE authSig
        /\ Authenticated(r.res)
        /\ last' = Result("authenticate", r.res,
                          [address |-> IF IsSome(options) THEN Get(options).address ELSE None,
                           signer |-> IsSome(options) /\ Get(options).signer,
                           cache |-> IF IsSome(options) THEN Get(options).cache
                                     ELSE "undefined",
                           ext |-> ext],
                          [before |-> authSig])
    /\ UNCHANGED <<kind, attestationResponse, idToken, redirectUri, session, calls>>

EthGetAuthMethodId ==
    /\ kind = "EthWallet"
    /\ last' = Result("getAuthMethodId", EthGetAuthMethodIdRun(authSig), NoArgs, NoArgs)
    /\ UNCHANGED <<kind, authSig, attestationResponse, idToken, redirectUri,
                   session, calls, authed, returned>>

WebAuthnAuthenticate ==
    /\ kind = "WebAuthn"
    /\ \E block \in BlockOutcomes, ceremony \in CeremonyOutcomes :
        LET r == WebAuthnAuthenticateRun(block, ceremony, Origin) IN
        /\ attestationResponse' = IF IsSome(r.stored) THEN r.stored
                                  ELSE attestationResponse
        /\ Authenticated(r.res)
        /\ last' = Result("authenticate", r.res, NoArgs, [before |-> attestationResponse])
    /\ UNCHANGED <<kind, authSig, idToken, redirectUri, session, calls>>

WebAuthnGetAuthMethodId ==
    /\ kind = "WebAuthn"
    /\ last' = Result("getAuthMethodId", WebAuthnGetAuthMethodIdRun(attestationResponse),
                      NoArgs, NoArgs)
    /\ UNCHANGED <<kind, authSig, attestationResponse, idToken, redirectUri,
                   session, calls, authed, returned>>

WebAuthnRegister ==
    /\ kind = "WebAuthn"
    /\ \E relay \in RegisterOutcomes :
        last' = Result("register", WebAuthnRegisterRun(relay), [relay |-> relay], NoArgs)
    /\ UNCHANGED <<kind, authSig, attestationResponse, idToken, redirectUri,
                   session, calls, authed, returned>>

WebAuthnVerify ==
    /\ kind = "WebAuthn"
    /\ last' = Result("verify", WebAuthnVerifyRun(attestationResponse), NoArgs,
                      [before |-> attestationResponse])
    /\ UNCHANGED <<kind, authSig, attestationResponse, idToken, redirectUri,
                   session, calls, authed, returned>>

WebAuthnVerifyAndMint ==
    /\ kind = "WebAuthn"
    /\ \E registration \in RegistrationOutcomes, mint \in MintOutcomes :
        LET r == VerifyAndMintRun(attestationResponse, registration, mint) IN
        last' = Result("verifyAndMintPKPThroughRelayer", r.res,
                       [registration |-> registration, mint |-> mint],
                       [req |-> r.req])
    /\ UNCHANGED <<kind, authSig, attestationResponse, idToken, redirectUri,
                   session, calls, authed, returned>>

\* AppleProvider.signIn with nanoid returning `token`: res is the outcome,
\* store the session store afterwards, url where the page was sent (None: nowhere)
AppleSignInRun(uri, token, store) ==
    LET r == prepareLoginUrl("apple", uri, token, store) IN
    IF ~r.res.ok
    THEN [res |-> r.res, store |-> r.store, url |-> None]
    ELSE [res |-> Ok(None, r.res.steps \o <<"location.assign">>),
          store |-> r.store, url |-> r.res.value]

AppleSignIn ==
    /\ kind = "Apple"
    /\ \E token \in Tokens :
        LET r == AppleSignInRun(redirectUri, token, session) IN
        /\ session' = r.store
        /\ last' = Result("signIn", r.res, [token |-> token], [url |-> r.url])
    /\ UNCHANGED <<kind, authSig, attestationResponse, idToken, redirectUri,
                   calls, authed, returned>>

\* prepareLoginUrl called for another OAuth provider of the same page
PrepareLoginUrl ==
    /\ kind = "Apple"
    /\ \E provider \in {"google", "discord"}, token \in Tokens :
        LET r == prepareLoginUrl(provider, redirectUri, token, session) IN
        /\ session' = r.store
        /\ last' = Result("prepareLoginUrl", r.res,
                          [provider |-> provider, token |-> token], NoArgs)
    /\ UNCHANGED <<kind, authSig, attestationResponse, idToken, redirectUri,
                   calls, authed, returned>>

\* removeStateParam called by the host page
RemoveStateParam ==
    /\ kind = "Apple"
    /\ session' = removeStateParam(session)
    /\ last' = Result("removeStateParam", Ok(None, <<>>), NoArgs, [before |-> session])
    /\ UNCHANGED <<kind, authSig, attestationResponse, idToken, redirectUri,
                   calls, authed, returned>>

\* window.location after history.replaceState(null, title, location.pathname)
Stripped(loc) == [path |-> loc.path, query |-> NoQuery]

\* an authenticate that calls removeStateParam once the state is validated
StoreErasedAfterAuthenticate(r, store) == IF r.strip THEN None ELSE store

\* the session store after AppleProvider.authenticate, which calls neither
\* setItem nor removeStateParam
StoreAfterAuthenticate(r, store) == store

\* authenticate() on a page whose URL is one of urls
AppleAuthenticateOn(urls) ==
    /\ kind = "Apple"
    /\ \E loc \in urls :
        LET r == AppleAuthenticateRun(loc, redirectUri, session) IN
        /\ idToken' = IF IsSome(r.token) THEN r.token ELSE idToken
        /\ session' = StoreAfterAuthenticate(r, session)
        /\ Authenticated(r.res)
        /\ last' = Result("authenticate", r.res, [location |-> loc],
                          [url |-> IF r.strip THEN Stripped(loc) ELSE loc,
                           before |-> idToken])
    /\ UNCHANGED <<kind, authSig, attestationResponse, redirectUri, calls>>

AppleAuthenticate == AppleAuthenticateOn(CallbackUrls)

AppleGetAuthMethodId ==
    /\ kind = "Apple"
    /\ last' = Result("getAuthMethodId", AppleGetAuthMethodIdRun(idToken), NoArgs, NoArgs)
    /\ UNCHANGED <<kind, authSig, attestationResponse, idToken, redirectUri,
                   session, calls, authed, returned>>

\* the standalone getAuthMethodId: on any AuthMethod when no provider is
\* used, else on the AuthMethod the provider returned and the caller kept
UtilsGetAuthMethodId ==
    /\ \E am \in (IF kind = "Utils" THEN AuthMethods
                  ELSE IF IsSome(returned) THEN {Get(returned)} ELSE {}),
          fetch \in FetchOutcomes :
        last' = Result("utils.getAuthMethodId", getAuthMethodId(am, fetch),
                       [authMethod |-> am, persisted |-> kind # "Utils"], NoArgs)
    /\ UNCHANGED <<kind, authSig, attestationResponse, idToken, redirectUri,
                   session, calls, authed, returned>>

Next ==
    \/ EthAuthenticate
    \/ EthGetAuthMethodId
    \/ WebAuthnAuthenticate
    \/ WebAuthnGetAuthMethodId
    \/ WebAuthnRegister
    \/ WebAuthnVerify
    \/ WebAuthnVerifyAndMint
    \/ AppleSignIn
    \/ PrepareLoginUrl
    \/ RemoveStateParam
    \/ AppleAuthenticate
    \/ AppleGetAuthMethodId
    \/ UtilsGetAuthMethodId

Spec == Init /\ [][Next]_vars


-----------------------------------------------------------------------------
(* Interleaved sign-ins.  prepareLoginUrl suspends at the dynamic import   *)
(* of nanoid and when setStateParam's promise resolves; calls started      *)
(* meanwhile run between these points.                                     *)

\* the callbacks a gateway redirect can carry: all checks but that of the
\* state pass
RaceCallbacks ==
    {Callback(<<"app.example", "cb">>, Some("apple"), Some(Jwt(GoodClaims)), st, None) :
        st \in {None} \cup {Some(encode(t)) : t \in Tokens}}

\* prepareLoginUrl up to `await import('nanoid')`, or its synchronous throw
RaceCall(i) ==
    /\ kind = "Apple"
    /\ calls.slots[i].pc = "idle"
    /\ \E provider \in {"google", "discord", "apple"} :
        IF IsSome(getLoginRoute(provider))
        THEN /\ calls' = [calls EXCEPT !.slots[i] =
                             [pc |-> "importing", provider |-> provider, token |-> <<>>]]
             /\ last' = Result("prepareLoginUrl:call", Ok(None, <<"getLoginRoute">>),
                               [provider |-> provider], NoArgs)
        ELSE /\ calls' = calls
             /\ last' = Result("prepareLoginUrl", Err("NoLoginRoute", <<"getLoginRoute">>),
                               [provider |-> provider], NoArgs)
    /\ UNCHANGED <<kind, authSig, attestationResponse, idToken, redirectUri,
                   session, authed, returned>>

\* setStateParam after the import: nanoid(15), sessionStorage.setItem
RaceStore(i) ==
    /\ kind = "Apple"
    /\ calls.slots[i].pc = "importing"
    /\ \E token \in Tokens :
        /\ session' = setStateParam(session, token)
        /\ calls' = [calls EXCEPT !.slots[i].pc = "stored",
                                  !.slots[i].token = token,
                                  !.written = Some(token),
                                  !.earlier = IF IsSome(calls.written)
                                              THEN @ \cup {Get(calls.written)}
                                              ELSE @]
        /\ last' = Result("prepareLoginUrl:store", Ok(None, <<"nanoid", "setItem">>),
                          [token |-> token], NoArgs)
    /\ UNCHANGED <<kind, authSig, attestationResponse, idToken, redirectUri,
                   authed, returned>>

\* prepareLoginUrl after setStateParam: encode, createQueryParams, the URL
RaceReturn(i) ==
    /\ kind = "Apple"
    /\ calls.slots[i].pc = "stored"
    /\ calls' = [calls EXCEPT !.slots[i] = NoCalls.slots[i]]
    /\ last' = Result("prepareLoginUrl",
                      Ok(Some(LoginUrl(Get(getLoginRoute(calls.slots[i].provider)),
                                       redirectUri, encode(calls.slots[i].token))),
                         <<"encode", "createQueryParams">>),
                      [provider |-> calls.slots[i].provider,
                       token |-> calls.slots[i].token], NoArgs)
    /\ UNCHANGED <<kind, authSig, attestationResponse, idToken, redirectUri,
                   session, authed, returned>>

RaceAuthenticate == AppleAuthenticateOn(RaceCallbacks)

InitRace == Init /\ kind = "Apple"

NextRace ==
    \/ \E i \in CallIds : RaceCall(i)
    \/ \E i \in CallIds : RaceStore(i)
    \/ \E i \in CallIds : RaceReturn(i)
    \/ RaceAuthenticate

SpecRace == InitRace /\ [][NextRace]_vars


-----------------------------------------------------------------------------
(* Properties.                                                             *)

\* the last call was AppleProvider.authenticate
IsAppleAuth == kind = "Apple" /\ last.op = "authenticate"

PrefixOf(p, s) == Len(p) <= Len(s) /\ \A i \in 1..Len(p) : s[i] = p[i]

\* the `state` parameter of loc is text but cannot be decoded
StateUndecodable(loc) ==
    /\ TruthySyms(loc.query.state)
    /\ \/ ~decodeURIComponent(Get(loc.query.state)).ok
       \/ ~decode(decodeURIComponent(Get(loc.query.state)).text).ok

\* the decoded `state` parameter of loc; None when absent, empty or undecodable
StateBytes(loc) ==
    IF ~TruthySyms(loc.query.state) \/ StateUndecodable(loc) THEN None
    ELSE Some(decode(decodeURIComponent(Get(loc.query.state)).text).bytes)

\* every check of the callback but that of the state passes
OtherwiseValid(loc) ==
    /\ PrefixOf(redirectUri, Href(loc))
    /\ loc.query.error = None
    /\ loc.query.provider = Some("apple")
    /\ IsSome(loc.query.id_token)
    /\ Get(loc.query.id_token) # EmptyText

HasStep(name) == \E i \in 1..Len(last.res.steps) : last.res.steps[i] = name

\* C1: on every provider variant, getAuthMethodId() called while no
\* authenticate() of the instance has returned (none called, or all failed)
\* throws the "call authenticate first" error and returns no identifier.
C1_NoIdBeforeAuthenticate ==
    (kind # "Utils" /\ last.op = "getAuthMethodId" /\ authed # "yes") =>
        /\ ~last.res.ok
        /\ last.res.error = "CallAuthenticateFirst"
        /\ last.res.value = None

C1_Witness ==
    /\ kind = "WebAuthn"
    /\ last.op = "getAuthMethodId"
    /\ authed = "failed"
    /\ last.res.error = "CallAuthenticateFirst"

\* C2: AppleProvider.authenticate on a callback whose other parameters are
\* valid fails with the invalid-state error, returning no AuthMethod, when the
\* state parameter is absent or decodes to something else than the stored
\* token; when it cannot be decoded the call fails too (with the decoder's error).
C2_StateMismatchFails ==
    (IsAppleAuth /\ OtherwiseValid(last.args.location)) =>
        /\ (/\ ~StateUndecodable(last.args.location)
            /\ \/ ~IsSome(StateBytes(last.args.location))
               \/ StateBytes(last.args.location) # session)
           => (~last.res.ok /\ last.res.error = "InvalidState"
               /\ last.res.value = None)
        /\ StateUndecodable(last.args.location)
           => (~last.res.ok /\ last.res.value = None)

C2_Witness ==
    /\ IsAppleAuth
    /\ OtherwiseValid(last.args.location)
    /\ IsSome(session)
    /\ IsSome(StateBytes(last.args.location))
    /\ StateBytes(last.args.location) # session
    /\ last.res.error = "InvalidState"

\* C3: when the current URL does not start with the redirect URI,
\* AppleProvider.authenticate fails with the redirect-mismatch error having
\* done nothing but the prefix test: the parameters are not parsed, no other
\* check runs, the session store is not read.
C3_RedirectMismatchFirst ==
    (IsAppleAuth /\ ~PrefixOf(redirectUri, Href(last.args.location))) =>
        /\ ~last.res.ok
        /\ last.res.error = "RedirectMismatch"
        /\ last.res.steps = <<"startsWith">>
        /\ last.out.url = last.args.location

C3_Witness ==
    /\ IsAppleAuth
    /\ ~PrefixOf(redirectUri, Href(last.args.location))
    /\ IsSome(last.args.location.query.error)
    /\ last.args.location.query.provider # Some("apple")
    /\ StateUndecodable(last.args.location)
    /\ last.res.error = "RedirectMismatch"

SupportedTypes == {"EthWallet", "WebAuthn", "AppleJwt", "GoogleJwt", "Discord", "OTP"}

HasClaims(t, names) ==
    /\ t.fmt = "jwt"
    /\ Len(t.segs) = 3
    /\ IsSome(t.segs[2].b64)
    /\ \A n \in names : IsSome(Field(Get(t.segs[2].b64), n))

\* the access token is what a provider of that type produces
WellFormed(am) ==
    CASE am.authMethodType = "EthWallet" ->
            am.accessToken.fmt = "json" /\ IsSome(Field(Get(am.accessToken.obj), "address"))
      [] am.authMethodType = "WebAuthn" ->
            am.accessToken.fmt = "json" /\ IsSome(Field(Get(am.accessToken.obj), "rawId"))
      [] am.authMethodType \in {"AppleJwt", "GoogleJwt"} ->
            HasClaims(am.accessToken, {"sub", "aud"})
      [] am.authMethodType = "OTP" ->
            HasClaims(am.accessToken, {"orgId", "extraData"})
      [] am.authMethodType = "Discord" -> am.accessToken.fmt = "opaque"
      [] OTHER -> FALSE

\* C4: the standalone getAuthMethodId, given a well-formed AuthMethod of any
\* supported type, reaches a derivation rule and never throws the
\* invalid-auth-method-type error.
C4_DispatcherTotal ==
    (/\ last.op = "utils.getAuthMethodId"
     /\ last.args.authMethod.authMethodType \in SupportedTypes
     /\ WellFormed(last.args.authMethod)) =>
        /\ last.res.error # "InvalidAuthMethodType"
        /\ Len(last.res.steps) >= 1

\* the instance's getAuthMethodId() in the current state
InstanceId ==
    CASE kind = "EthWallet" -> EthGetAuthMethodIdRun(authSig)
      [] kind = "WebAuthn" -> WebAuthnGetAuthMethodIdRun(attestationResponse)
      [] kind = "Apple" -> AppleGetAuthMethodIdRun(idToken)

\* C5: the standalone getAuthMethodId applied to the AuthMethod that the
\* instance's last successful authenticate() returned yields the identifier
\* that the instance's getAuthMethodId() yields.
C5_SameIdentifier ==
    (last.op = "utils.getAuthMethodId" /\ last.args.persisted /\ InstanceId.ok) =>
        /\ last.res.ok
        /\ last.res.value = InstanceId.value

\* C6: after EthWalletProvider.authenticate() succeeded on the caller-supplied
\* address and signing function, the AuthMethod is of type EthWallet and
\* getAuthMethodId() returns the checksum form of the address.
C6_ChecksumIdentifier ==
    (/\ kind = "EthWallet"
     /\ last.op = "authenticate"
     /\ last.res.ok
     /\ HasStep("signMessage")) =>
        /\ Get(last.res.value).authMethodType = "EthWallet"
        /\ EthGetAuthMethodIdRun(authSig).value
               = Some(getChecksumAddress(Get(last.args.address)))

\* C7: AppleProvider.signIn() completes with the generated token in the
\* session store and the page sent to a login URL whose state parameter
\* decodes to that token.
C7_SignInStoresAndNavigates ==
    (kind = "Apple" /\ last.op = "signIn") =>
        /\ last.res.ok
        /\ session = Some(last.args.token)
        /\ IsSome(last.out.url)
        /\ StateBytes(Get(last.out.url)) = Some(last.args.token)

\* C8 as stated: once authenticate() has validated a callback, the session
\* store holds no state token.
C8_ErasedAfterValidation ==
    (IsAppleAuth /\ HasStep("replaceState")) => session = None

\* C8 as amended: once authenticate() has validated a callback, the session
\* store still holds the state token, which is the decoded state parameter
\* of that callback: the token is read and not erased.
C8_KeptAfterValidation ==
    (IsAppleAuth /\ HasStep("replaceState")) =>
        /\ IsSome(session)
        /\ session = StateBytes(last.args.location)

C8_Witness ==
    /\ IsAppleAuth
    /\ HasStep("replaceState")
    /\ last.res.ok
    /\ IsSome(session)

\* C9: with sign-ins interleaved, the session store holds the token of the
\* last write; an authenticate() whose callback is otherwise valid succeeds
\* only on the token of the last write, and fails the state check on the
\* token of an earlier write that is not also the last one.
C9_LastWriteWins ==
    /\ IsSome(calls.written) => session = calls.written
    /\ (IsAppleAuth /\ OtherwiseValid(last.args.location)) =>
        /\ last.res.ok =>
              (IsSome(calls.written) /\ StateBytes(last.args.location) = calls.written)
        /\ (/\ IsSome(StateBytes(last.args.location))
            /\ Get(StateBytes(last.args.location)) \in calls.earlier
            /\ StateBytes(last.args.location) # calls.written)
           => (~last.res.ok /\ last.res.error = "InvalidState")

C9_Witness ==
    /\ IsAppleAuth
    /\ \A i \in CallIds : calls.slots[i].pc = "stored"
    /\ IsSome(StateBytes(last.args.location))
    /\ Get(StateBytes(last.args.location)) \in calls.earlier
    /\ StateBytes(last.args.location) # calls.written
    /\ last.res.error = "InvalidState"

\* C10: on a WebAuthnProvider on which authenticate() was never called, a
\* verifyAndMintPKPThroughRelayer whose ceremony returns, whose attestation
\* holds a public key and whose relay answers with a request id returns
\* that request id.
C10_RegistrationIndependent ==
    (/\ kind = "WebAuthn"
     /\ last.op = "verifyAndMintPKPThroughRelayer"
     /\ authed = "no"
     /\ last.args.registration.status = "returns"
     /\ IsSome(PublicKeyOf(last.args.registration.attResp.attestationObject))
     /\ last.args.mint.status = "returns"
     /\ IsSome(last.args.mint.response)
     /\ IsSome(Get(last.args.mint.response).requestId)) =>
        /\ last.res.ok
        /\ last.res.value = Get(last.args.mint.response).requestId


IdentifiedAssertions == {a \in Assertions : IsSome(a.rawId)}

WebAuthnMethod(a) == [authMethodType |-> "WebAuthn", accessToken |-> JSONstringify(a)]

\* C12: the WebAuthn identifier depends on the assertion's rawId alone: it is
\* the hash of "<rawId>:lit", an assertion with the same rawId and other
\* fields gets the same identifier and one with another rawId gets another
\* identifier, from WebAuthnProvider.getAuthMethodId() and from the
\* standalone WebAuthn rule alike.
C12_RawIdOnly ==
    /\ (/\ kind = "WebAuthn"
        /\ last.op = "getAuthMethodId"
        /\ last.res.ok
        /\ IsSome(Get(attestationResponse).rawId)) =>
           /\ \A a \in IdentifiedAssertions :
                 (a.rawId = Get(attestationResponse).rawId)
                 <=> (WebAuthnGetAuthMethodIdRun(Some(a)).value = last.res.value)
           /\ last.res.value
                 = Some(keccak256(Get(Get(attestationResponse).rawId) \o <<":", "l", "i", "t">>))
    /\ (/\ last.op = "utils.getAuthMethodId"
        /\ last.args.authMethod.authMethodType = "WebAuthn"
        /\ last.args.authMethod.accessToken.fmt = "json"
        /\ IsSome(Field(Get(last.args.authMethod.accessToken.obj), "rawId"))) =>
           /\ \A a \in IdentifiedAssertions :
                 (a.rawId = Field(Get(last.args.authMethod.accessToken.obj), "rawId"))
                 <=> (getWebAuthnAuthMethodId(WebAuthnMethod(a)).value = last.res.value)
           /\ last.res.value
                 = Some(keccak256(Get(Field(Get(last.args.authMethod.accessToken.obj), "rawId"))
                                  \o <<":", "l", "i", "t">>))

C12_Witness ==
    /\ kind = "WebAuthn"
    /\ last.op = "utils.getAuthMethodId"
    /\ last.res.ok
    /\ IsSome(Get(attestationResponse).rawId)
    /\ IsSome(Get(attestationResponse).userHandle)
    /\ last.res.value = WebAuthnGetAuthMethodIdRun(attestationResponse).value

OtpToken == last.args.authMethod.accessToken

\* C13: for an OTP AuthMethod whose payload has extraData and orgId, the
\* identifier is the hash of "<u>:<o>", u the part of extraData before its
\* first "|" in its own casing, o the orgId in lower case: extraData "U7|x"
\* with orgId "Org" hashes "U7:org".
C13_OtpRule ==
    (/\ last.op = "utils.getAuthMethodId"
     /\ last.args.authMethod.authMethodType = "OTP"
     /\ HasClaims(OtpToken, {"orgId", "extraData"})) =>
        /\ last.res.ok
        /\ last.res.value
             = Some(keccak256(FirstPart(Get(Get(OtpToken.segs[2].b64).extraData))
                              \o <<":">>
                              \o toLowerCase(Get(Get(OtpToken.segs[2].b64).orgId))))
        /\ OtpToken = Jwt(OtpClaims)
             => last.res.value = Some(keccak256(<<"U", "7", ":", "o", "r", "g">>))
        /\ OtpToken = Jwt(OtpClaimsNoBar)
             => last.res.value = Some(keccak256(<<"U", "7", ":", "o", "b">>))
        /\ OtpToken = Jwt(OtpClaimsTwoBars)
             => last.res.value = Some(keccak256(<<"U", ":", "o", "b">>))

C13_Witness ==
    /\ last.op = "utils.getAuthMethodId"
    /\ last.args.authMethod.authMethodType = "OTP"
    /\ OtpToken = Jwt(OtpClaims)
    /\ last.res.value = Some(keccak256(<<"U", "7", ":", "o", "r", "g">>))

\* the number of dot-separated segments of a token
SegmentCount(t) == IF t.fmt = "jwt" THEN Len(t.segs) ELSE 1

\* the call stopped at the count of the segments
FailedOnSegmentCount ==
    /\ ~last.res.ok
    /\ last.res.value = None
    /\ last.res.error \in {"InvalidTokenLength", "JWTInvalid"}
    /\ ~HasStep("decodePayload")

\* C14: a token that has not exactly three dot-separated segments makes the
\* OTP rule, the Google rule and AppleProvider.getAuthMethodId() fail with
\* the decode error before a segment is decoded; no identifier is returned.
C14_ThreeSegments ==
    /\ (/\ last.op = "utils.getAuthMethodId"
        /\ last.args.authMethod.authMethodType \in {"OTP", "GoogleJwt"}
        /\ SegmentCount(last.args.authMethod.accessToken) # 3)
       => FailedOnSegmentCount
    /\ (/\ kind = "Apple"
        /\ last.op = "getAuthMethodId"
        /\ Truthy(idToken)
        /\ SegmentCount(Get(idToken)) # 3)
       => FailedOnSegmentCount

C14_Witness ==
    /\ last.op = "utils.getAuthMethodId"
    /\ last.args.authMethod.authMethodType = "OTP"
    /\ last.args.authMethod.accessToken = TwoSegmentJwt
    /\ FailedOnSegmentCount

\* C15: every derivation rule fails, and returns no identifier, on an access
\* token that is malformed or lacks a field the rule reads (EthWallet
\* address, WebAuthn rawId, Google/Apple sub or aud, OTP orgId or extraData),
\* in the standalone rules and in the providers' getAuthMethodId().
C15_MalformedTokenFails ==
    /\ (/\ last.op = "utils.getAuthMethodId"
        /\ last.args.authMethod.authMethodType \in {"EthWallet", "WebAuthn", "GoogleJwt", "OTP"}
        /\ ~WellFormed(last.args.authMethod))
       => (~last.res.ok /\ last.res.value = None)
    /\ (/\ kind = "Apple"
        /\ last.op = "getAuthMethodId"
        /\ Truthy(idToken)
        /\ ~HasClaims(Get(idToken), {"sub", "aud"}))
       => (~last.res.ok /\ last.res.value = None)
    /\ (/\ kind = "WebAuthn"
        /\ last.op = "getAuthMethodId"
        /\ IsSome(attestationResponse)
        /\ ~IsSome(Get(attestationResponse).rawId))
       => (~last.res.ok /\ last.res.value = None)

\* how many times the last call reached `name`
StepCount(name) == Cardinality({i \in 1..Len(last.res.steps) : last.res.steps[i] = name})

\* the last call went to the 'sign or fetch cached signature' collaborator
UsedCollaborator ==
    HasStep("checkAndSignAuthMessage") \/ HasStep("checkAndSignAuthMessage(cache)")

\* C16: EthWalletProvider.authenticate() called with a (valid) address and a
\* signing function calls the signing function exactly once, on the
\* canonical message, and on success stores an AuthSig with that message;
\* the collaborator is used only when the address or the signing function
\* is not supplied.
C16_CallerSignerUsed ==
    (kind = "EthWallet" /\ last.op = "authenticate") =>
        /\ (/\ IsSome(last.args.address)
            /\ getAddress(Get(last.args.address)).ok
            /\ last.args.signer) =>
               /\ StepCount("signMessage") = 1
               /\ last.res.ok =>
                     /\ Get(authSig).sig = "0xsig"
                     /\ Get(authSig).signedMessage
                          = PreparedMessage(Domain, Origin,
                                            getChecksumAddress(Get(last.args.address)),
                                            137, "now+24h")
        /\ UsedCollaborator => (~IsSome(last.args.address) \/ ~last.args.signer)

\* C17: when the collaborator returns no AuthSig (the caller's path always
\* builds one), EthWalletProvider.authenticate() fails with the
\* missing-signature error, returns no AuthMethod and leaves #authSig as it
\* was before the call.
C17_MissingSignature ==
    (/\ kind = "EthWallet"
     /\ last.op = "authenticate"
     /\ UsedCollaborator
     /\ last.args.ext.wallet.status = "returns"
     /\ ~IsSome(last.args.ext.wallet.authSig)) =>
        /\ ~last.res.ok
        /\ last.res.error = "AuthSigUndefined"
        /\ last.res.value = None
        /\ authSig = last.out.before

C17_Witness ==
    /\ kind = "EthWallet"
    /\ last.op = "authenticate"
    /\ UsedCollaborator
    /\ last.args.ext.wallet.status = "returns"
    /\ ~IsSome(last.args.ext.wallet.authSig)
    /\ IsSome(last.out.before)
    /\ last.res.error = "AuthSigUndefined"

\* the credential the instance holds: #authSig, #attestationResponse or #idToken
Credential ==
    CASE kind = "EthWallet" -> authSig
      [] kind = "WebAuthn" -> attestationResponse
      [] kind = "Apple" -> idToken
      [] OTHER -> None

\* the access token of an AuthMethod carrying credential c
CarriedBy(c) == IF kind = "Apple" THEN c ELSE JSONstringify(c)

TypeOfKind ==
    CASE kind = "EthWallet" -> "EthWallet"
      [] kind = "WebAuthn" -> "WebAuthn"
      [] kind = "Apple" -> "AppleJwt"
      [] OTHER -> ""

\* C18: on each provider authenticate() ends in one of two ways: it returns
\* an AuthMethod of the provider's type and the instance holds the material
\* that AuthMethod carries, or it fails, returns nothing and the instance
\* holds what it held before the call.
C18_TwoOutcomes ==
    (kind # "Utils" /\ last.op = "authenticate") =>
        /\ last.res.ok =>
              /\ IsSome(last.res.value)
              /\ IsSome(Credential)
              /\ Get(last.res.value).authMethodType = TypeOfKind
              /\ Get(last.res.value).accessToken = CarriedBy(Get(Credential))
              /\ returned = last.res.value
        /\ ~last.res.ok =>
              /\ last.res.value = None
              /\ Credential = last.out.before

C18_Witness ==
    /\ kind = "WebAuthn"
    /\ last.op = "authenticate"
    /\ ~last.res.ok
    /\ authed = "yes"
    /\ IsSome(last.out.before)
    /\ attestationResponse = last.out.before
    /\ WebAuthnGetAuthMethodIdRun(attestationResponse).ok

\* the calls that leave the core
ExternalCalls ==
    {"signMessage", "checkAndSignAuthMessage", "checkAndSignAuthMessage(cache)",
     "getBlock", "startAuthentication", "startRegistration",
     "generateRegistrationOptions", "mintPKP", "fetch"}

\* the errors that are failures of an external call
ExternalErrors ==
    {"SignError", "WalletError", "RpcError", "CeremonyError", "RelayError",
     "NetworkError", "UnableToFetchDiscordUserInfo"}

\* C19: no operation issues an external call twice (the signing function and
\* the signature collaborator exclude each other), and an operation whose
\* external call failed ends with that call: it neither repeats it nor
\* issues a later one.
C19_NoRetries ==
    /\ \A c \in ExternalCalls : StepCount(c) <= 1
    /\ StepCount("signMessage") + StepCount("checkAndSignAuthMessage")
          + StepCount("checkAndSignAuthMessage(cache)") <= 1
    /\ last.res.error \in ExternalErrors =>
          /\ ~last.res.ok
          /\ Len(last.res.steps) >= 1
          /\ last.res.steps[Len(last.res.steps)] \in ExternalCalls
    /\ last.res.error = "RpcError" => ~HasStep("startAuthentication")
    /\ (last.op = "verifyAndMintPKPThroughRelayer" /\ last.res.error = "CeremonyError")
          => ~HasStep("mintPKP")

C19_Witness ==
    /\ last.op = "utils.getAuthMethodId"
    /\ last.args.authMethod.authMethodType = "Discord"
    /\ last.res.error = "UnableToFetchDiscordUserInfo"
    /\ StepCount("fetch") = 1

HasErrorParam(loc) == IsSome(loc.query.error) /\ Get(loc.query.error) # ""

WrongProvider(loc) == loc.query.provider # Some("apple")

BadState(loc) == ~IsSome(StateBytes(loc)) \/ StateBytes(loc) # session

\* C20: AppleProvider.authenticate() tests, in this order, the redirect-URI
\* prefix, the error parameter, the provider name, the state token and the
\* presence of id_token, and fails with the error of the first test that
\* does not pass, whatever the later ones would say; it succeeds when all pass.
C20_CheckOrder ==
    IsAppleAuth =>
        LET loc == last.args.location IN
        IF ~PrefixOf(redirectUri, Href(loc)) THEN last.res.error = "RedirectMismatch"
        ELSE IF HasErrorParam(loc) THEN last.res.error = "ProviderError"
        ELSE IF WrongProvider(loc) THEN last.res.error = "ProviderMismatch"
        ELSE IF BadState(loc)
        THEN last.res.error \in {"InvalidState", "URIError", "InvalidCharacterError"}
        ELSE IF ~Truthy(loc.query.id_token) THEN last.res.error = "MissingIdToken"
        ELSE last.res.ok

C20_Witness ==
    /\ IsAppleAuth
    /\ PrefixOf(redirectUri, Href(last.args.location))
    /\ HasErrorParam(last.args.location)
    /\ WrongProvider(last.args.location)
    /\ BadState(last.args.location)
    /\ last.res.error = "ProviderError"

\* C21: in verifyAndMintPKPThroughRelayer, once the ceremony has returned, an
\* attestation that does not decode makes the call fail with the
\* attestation-parse error without relay.mintPKP being called; a mintPKP
\* that returns no response or no requestId makes it fail with the relay
\* error; a request id is returned only when the parse and the mint succeeded.
C21_RegistrationErrors ==
    (/\ kind = "WebAuthn"
     /\ last.op = "verifyAndMintPKPThroughRelayer"
     /\ last.args.registration.status = "returns") =>
        /\ ~IsSome(PublicKeyOf(last.args.registration.attResp.attestationObject)) =>
              /\ last.res.error = "AttestationDecode"
              /\ ~HasStep("mintPKP")
              /\ last.out.req = None
        /\ (/\ HasStep("mintPKP")
            /\ last.args.mint.status = "returns"
            /\ \/ ~IsSome(last.args.mint.response)
               \/ ~IsSome(Get(last.args.mint.response).requestId)) =>
              last.res.error = "MissingMintResponse"
        /\ last.res.ok =>
              /\ IsSome(PublicKeyOf(last.args.registration.attResp.attestationObject))
              /\ HasStep("mintPKP")
              /\ IsSome(last.args.mint.response)
              /\ last.res.value = Get(last.args.mint.response).requestId
              /\ IsSome(last.res.value)

\* C22: EthWalletProvider.authenticate() called without a cache option
\* (no options, cache undefined, or cache null) takes the cached-signature
\* path through the collaborator, not the non-cached path.
C22_CacheByDefault ==
    (/\ kind = "EthWallet"
     /\ last.op = "authenticate"
     /\ last.args.cache \in {"undefined", "null"}) =>
        /\ HasStep("checkAndSignAuthMessage(cache)")
        /\ ~HasStep("signMessage")
        /\ ~HasStep("checkAndSignAuthMessage")

\* C23: AppleProvider.authenticate() succeeds only while the session store
\* holds a state token: with nothing stored (never written, or removed) it
\* fails on every callback URL, one with an absent or empty state included.
C23_NeedsStoredToken ==
    IsAppleAuth =>
        /\ last.res.ok => IsSome(session)
        /\ session = None => (~last.res.ok /\ last.res.value = None)

C23_Witness ==
    /\ IsAppleAuth
    /\ session = None
    /\ OtherwiseValid(last.args.location)
    /\ ~TruthySyms(last.args.location.query.state)
    /\ last.res.error = "InvalidState"

\* the redirect-prefix, error, provider and state tests all pass on loc
FourChecksPass(loc) ==
    /\ PrefixOf(redirectUri, Href(loc))
    /\ ~HasErrorParam(loc)
    /\ ~WrongProvider(loc)
    /\ ~BadState(loc)

\* loc without its query
PathOnly(loc) == [path |-> loc.path, query |-> NoQuery]

\* C24: AppleProvider.authenticate() leaves the page on the URL without its
\* query exactly when the prefix, error, provider and state tests have all
\* passed: a call failing one of the four leaves the URL as it was, a call
\* failing on the missing id_token has replaced it already.
C24_StripTiming ==
    IsAppleAuth =>
        /\ FourChecksPass(last.args.location) =>
              (last.out.url = PathOnly(last.args.location) /\ HasStep("replaceState"))
        /\ ~FourChecksPass(last.args.location) =>
              (last.out.url = last.args.location /\ ~HasStep("replaceState")
               /\ ~last.res.ok)
        /\ last.res.error = "MissingIdToken" =>
              /\ FourChecksPass(last.args.location)
              /\ last.out.url = PathOnly(last.args.location)

C24_Witness ==
    /\ IsAppleAuth
    /\ last.res.error = "MissingIdToken"
    /\ last.out.url = PathOnly(last.args.location)
    /\ last.out.url # last.args.location

\* the identifier of a credential with this rawId
IdOfRawId(rawId) == Some(keccak256(Interp(rawId) \o <<":", "l", "i", "t">>))

\* C25: the request that verifyAndMintPKPThroughRelayer hands to
\* relay.mintPKP carries as authMethodId the identifier of the rawId stored
\* by the last successful authenticate(), not that of the credential the
\* registration created, and as authMethodPubKey the key of the
\* registration's attestation; no request is made before an authenticate().
C25_MintIdFromAuthentication ==
    (/\ kind = "WebAuthn"
     /\ last.op = "verifyAndMintPKPThroughRelayer"
     /\ IsSome(last.out.req)) =>
        /\ authed = "yes"
        /\ IsSome(attestationResponse)
        /\ Get(last.out.req).authMethodId = IdOfRawId(Get(attestationResponse).rawId)
        /\ Get(last.out.req).authMethodId # IdOfRawId(last.args.registration.attResp.rawId)
        /\ Get(last.out.req).authMethodPubKey
             = PublicKeyOf(last.args.registration.attResp.attestationObject)
        /\ Get(last.out.req).authMethodType = "WebAuthn"

C25_Witness ==
    /\ kind = "WebAuthn"
    /\ last.op = "verifyAndMintPKPThroughRelayer"
    /\ last.res.ok
    /\ IsSome(last.out.req)
    /\ IsSome(Get(attestationResponse).rawId)
    /\ Get(last.out.req).authMethodId = IdOfRawId(Get(attestationResponse).rawId)

====
